---- MODULE Spec2Model ----
(***************************************************************************)
(* A model of the load balancer: the per-backend circuit breaker, the      *)
(* retry executor, the three selection policies and the request pipeline   *)
(* of the proxy.                                                           *)
(***************************************************************************)
EXTENDS Integers, Sequences, FiniteSets, TLC

(***************************************************************************)
(* Bounds of the model and configured parameters.                          *)
(***************************************************************************)
\* the clock runs from 0 to MaxTime
MaxTime == 3
\* circuit_breaker.failure_threshold
FailureThreshold == 3
\* circuit_breaker.half_open_limit
HalfOpenLimit == 2
\* circuit_breaker.reset_timeout, in clock ticks
ResetTimeout == 1
\* failureCount is not counted beyond this value
MaxFailures == 4
\* number of goroutines that use one breaker concurrently
MaxCallers == 3
\* goroutines that call IncrementConnections / DecrementConnections
MaxWorkers == 3
\* largest value the connection counter is driven to
MaxConns == 2
\* capacity of the scheduler's results channel
ResultsCap == 2
\* calls of Scheduler.Stop
MaxStops == 2

\* retry.max_retries
MaxRetries == 2
\* retry.initial_interval, retry.max_interval (clock units), retry.multiplier
InitialInterval == 2
MaxInterval == 6
Multiplier == 2
\* retry.randomization, in percent
RandomizationPct == 50

\* requests the proxy serves in one run, and how many of them at a time
MaxRequests == 4
MaxInFlight == 2
\* sticky_session.ttl (clock units) and sticky_session.max_sessions
SessionTTL == 2
MaxSessions == 1
\* number of Next() calls made on a selector alone
MaxPicks == 12
\* number of Next() calls made on a least-connections selector
MaxLCPicks == 2
\* length of the key list and number of Next() calls while backends are added
\* and removed
MaxKeys == 3
\* number of Next() calls the concurrent goroutines make in all
MaxRRCalls == 4
\* the calls of Next() the weighted selector's caller makes
MaxWPicks == 3
MaxRegPicks == 1
\* requests that arrive at the proxy with sticky sessions
StickyRequests == 3

Backends == {"A", "B", "C"}
\* the backends the health scheduler is given
Probed == {"A", "B"}
Callers == 1..MaxCallers
Workers == 1..MaxWorkers
Clients == {"c1", "c2"}
Reqs == 1..MaxInFlight
Algorithms == {"round-robin", "least-connections", "weighted-round-robin"}
\* the backends of the configuration, in the order main adds them
KeyLists == {<< >>, <<"A">>, <<"A", "B">>}
\* upstream answers: a status code, or 0 for a transport error
Responses == {0, 200, 404, 500}

VARIABLES
    now,            \* the clock read by time.Now / time.Since
    breaker,        \* backend id -> CircuitBreaker fields
    consecFailures, \* backend id -> failures recorded since the last recorded success
    callers,        \* goroutine -> its position in AllowRequest / the request it guards
    do,             \* one call of retry.Do: its locals and its position
    ctxDone,        \* whether ctx.Done() of that call is closed
    algorithm,      \* the policy given to balancer.New
    keys,           \* ids of the registered backends, in insertion order
    sticky,         \* whether the proxy has an enabled session manager
    healthy,        \* backend id -> Backend.IsHealthy
    conns,          \* backend id -> Backend.CurrentConns
    rrCurrent,      \* roundRobin.current
    currentWeights, \* backend id -> weightedRoundRobin.currentWeights
    sessions,       \* client key -> Session (BackendID "" when absent)
    metrics,        \* the counters of metrics.Metrics
    req,            \* request slot -> the request ServeHTTP is serving in it
    last,           \* the request ServeHTTP answered last, as the client saw it
    streak500,      \* number of requests in a row that ended in an upstream 500
    pin,            \* client key -> backend and time of its last successful request
    connOps,        \* goroutine -> its position in Increment/DecrementConnections
    sched,          \* the fields of health.Scheduler
    loops,          \* backend id -> the runChecker goroutine started for it
    sm,             \* the session.Manager built, if any: its type and its sweeper
    served,         \* the last request a session was remembered for, as the client saw it
    picks,          \* the backends successive Next() calls returned
    retryCfg,       \* whether SetRetryConfig was called on the backends
    smOp,           \* the last call made on the session manager itself
    registry,       \* the ids in the selector's backends map
    rrCalls         \* goroutine -> its position in roundRobin.Next

cbVars == <<now, breaker, consecFailures, callers>>
retryVars == <<do, ctxDone>>
lbVars == <<algorithm, keys, sticky, healthy, conns, rrCurrent, currentWeights,
            sessions, metrics, req, last, streak500, pin>>
harnessVars == <<smOp, registry, rrCalls>>
otherVars == <<sm, served, picks, retryCfg, harnessVars>>
auxVars == <<connOps, sched, loops, otherVars>>
vars == <<now, breaker, consecFailures, callers, do, ctxDone, algorithm, keys,
          sticky, healthy, conns, rrCurrent, currentWeights, sessions, metrics,
          req, last, streak500, pin, connOps, sched, loops, sm, served, picks,
          retryCfg, smOp, registry, rrCalls>>

(***************************************************************************)
(* circuitbreaker.CircuitBreaker                                           *)
(***************************************************************************)
\* the zero time.Time: time.Since of it exceeds every timeout
ZeroTime == 0 - (ResetTimeout + 1)

CBNew ==
    [state |-> "Closed", failureCount |-> 0, successCount |-> 0,
     lastFailureTime |-> ZeroTime]

\* what AllowRequest decides under its read lock: "allow" and "reject" are the
\* immediate returns, "flip" is the branch that gives up the read lock to
\* take the write lock
AllowRequestRead(cb, t) ==
    CASE cb.state = "Closed" -> "allow"
      [] cb.state = "Open" ->
            IF t - cb.lastFailureTime > ResetTimeout THEN "flip" ELSE "reject"
      [] cb.state = "HalfOpen" ->
            IF cb.successCount < HalfOpenLimit THEN "allow" ELSE "reject"
      [] OTHER -> "reject"

\* the write done under the write lock: nothing is read again
AllowRequestFlip(cb) == [cb EXCEPT !.state = "HalfOpen"]

\* RecordSuccess closing the breaker without clearing failureCount
RecordSuccess_KeepFailureCount(cb) ==
    CASE cb.state = "Closed" -> [cb EXCEPT !.failureCount = 0]
      [] cb.state = "HalfOpen" ->
            IF cb.successCount + 1 >= HalfOpenLimit
            THEN [cb EXCEPT !.state = "Closed", !.successCount = 0]
            ELSE [cb EXCEPT !.successCount = cb.successCount + 1]
      [] OTHER -> cb

RecordSuccess(cb) ==
    CASE cb.state = "Closed" -> [cb EXCEPT !.failureCount = 0]
      [] cb.state = "HalfOpen" ->
            IF cb.successCount + 1 >= HalfOpenLimit
            THEN [cb EXCEPT !.state = "Closed", !.failureCount = 0, !.successCount = 0]
            ELSE [cb EXCEPT !.successCount = cb.successCount + 1]
      [] OTHER -> cb

\* RecordFailure re-opening a half-open breaker without clearing successCount
RecordFailure_KeepSuccessCount(cb, t) ==
    LET c1 == [cb EXCEPT !.failureCount = cb.failureCount + 1, !.lastFailureTime = t]
    IN CASE cb.state = "Closed" ->
                IF c1.failureCount >= FailureThreshold
                THEN [c1 EXCEPT !.state = "Open"] ELSE c1
         [] cb.state = "HalfOpen" -> [c1 EXCEPT !.state = "Open"]
         [] OTHER -> c1

\* RecordFailure tripping one failure late (> instead of >=)
RecordFailure_LateTrip(cb, t) ==
    LET c1 == [cb EXCEPT !.failureCount = cb.failureCount + 1, !.lastFailureTime = t]
    IN CASE cb.state = "Closed" ->
                IF c1.failureCount > FailureThreshold
                THEN [c1 EXCEPT !.state = "Open"] ELSE c1
         [] cb.state = "HalfOpen" -> [c1 EXCEPT !.state = "Open", !.successCount = 0]
         [] OTHER -> c1

RecordFailure(cb, t) ==
    LET c1 == [cb EXCEPT !.failureCount = cb.failureCount + 1, !.lastFailureTime = t]
    IN CASE cb.state = "Closed" ->
                IF c1.failureCount >= FailureThreshold
                THEN [c1 EXCEPT !.state = "Open"] ELSE c1
         [] cb.state = "HalfOpen" -> [c1 EXCEPT !.state = "Open", !.successCount = 0]
         [] OTHER -> c1

(***************************************************************************)
(* Concurrent use of the breakers: each goroutine asks AllowRequest and,   *)
(* once admitted, records the outcome of its request.                      *)
(***************************************************************************)
\* the breakers the concurrent callers share
CBSubjects == {"A"}

IdleCaller == [pc |-> "idle", b |-> "A", probe |-> FALSE, first |-> FALSE]

\* a goroutine that is in neither IncrementConnections nor DecrementConnections
IdleOp == [pc |-> "idle", b |-> "A"]

\* no runChecker goroutine
NoLoop == [pc |-> "none", ok |-> FALSE, tick |-> FALSE]

\* health.NewScheduler: the keys of backends and checkers, whether Start ran,
\* the calls of Stop and whether one panicked, the results in the channel
SchedNew ==
    [backends |-> {}, started |-> FALSE, stopCalls |-> 0, panicked |-> FALSE,
     results |-> 0]

\* session.NewManager for a session type: whatever config.Enabled says, it
\* starts the cleanupLoop goroutine
SMNew(type) == [type |-> type, sweeper |-> TRUE]
\* NewManager was not called
NoManager == [type |-> "", sweeper |-> FALSE]

\* an http.ResponseWriter as far as the session cookie goes: the Set-Cookie
\* value in its header map, whether WriteHeader was called, and the value in
\* the headers that went to the client
NewWriter == [header |-> "", wrote |-> FALSE, sent |-> ""]
\* ResponseWriter.WriteHeader: the header map as it is now is what is sent
WriteHeader(w) == IF w.wrote THEN w ELSE [w EXCEPT !.wrote = TRUE, !.sent = w.header]
\* http.SetCookie(w, cookie): w.Header().Add("Set-Cookie", ...)
SetCookie(w, v) == [w EXCEPT !.header = v]

\* no request served yet: the session key the request presented, the backend
\* it went to, the Set-Cookie value SetBackendID put in the header map and the
\* Set-Cookie value in the headers as they were sent to the client
NotServed == [key |-> "", b |-> "", setCookie |-> "", delivered |-> ""]

\* no call made on the session manager: the call, the clock when it was made,
\* the session key it was given and what it returned
NoOp == [op |-> "", at |-> 0, key |-> "", result |-> ""]

\* a goroutine outside roundRobin.Next: the cursor value it read and the
\* backend it is about to return
IdleCall == [pc |-> "idle", cur |-> 0, b |-> ""]

BaseInit ==
    /\ smOp = NoOp
    /\ rrCalls = [w \in Workers |-> IdleCall]
    /\ connOps = [w \in Workers |-> IdleOp]
    /\ loops = [b \in Backends |-> NoLoop]
    /\ sched = SchedNew
    /\ served = NotServed
    /\ picks = << >>
    /\ now = 0
    /\ breaker = [b \in Backends |-> CBNew]
    /\ consecFailures = [b \in Backends |-> 0]
    /\ callers = [c \in Callers |-> IdleCaller]

\* no session manager, and every backend was given a retry configuration, as
\* main builds the load balancer
CoreInit ==
    /\ BaseInit
    /\ sm = NoManager
    /\ retryCfg = TRUE

\* the nil error, and the result of a call that has not returned
Nil == [kind |-> "nil", attempt |-> 0]
NoResult == [kind |-> "none", attempt |-> 0]

DoIdle ==
    [pc |-> "returned", maxRetries |-> 0, i |-> 0, err |-> Nil, interval |-> 0,
     outcomes |-> <<>>, waits |-> <<>>, result |-> Nil]

NoSession == [backendID |-> "", expiresAt |-> 0]
NoPin == [b |-> "", at |-> 0]

IdleReq == [pc |-> "idle", client |-> "c1", b |-> "", via |-> "", do |-> DoIdle, resps |-> << >>]

\* an answered request: the error of Next, the status the client got and the
\* upstream answers it took
Answered(err, status, resps) == [err |-> err, status |-> status, resps |-> resps]

MetricsNew ==
    [totalRequests |-> 0, failedRequests |-> 0,
     activeConnections |-> [b \in Backends |-> 0],
     backendRequests |-> [b \in Backends |-> 0],
     backendFailures |-> [b \in Backends |-> 0]]

\* the proxy as main builds it, one backend list and one policy
LBStart(alg, ks, st) ==
    /\ algorithm = alg
    /\ keys = ks
    /\ registry = {ks[i] : i \in 1..Len(ks)}
    /\ sticky = st
    /\ healthy = [b \in Backends |-> TRUE]
    /\ conns = [b \in Backends |-> 0]
    /\ rrCurrent = 0
    /\ currentWeights = [b \in Backends |-> 0]
    /\ sessions = [c \in Clients |-> NoSession]
    /\ metrics = MetricsNew
    /\ req = [r \in Reqs |-> IdleReq]
    /\ last = Answered("", 0, << >>)
    /\ streak500 = 0
    /\ pin = [c \in Clients |-> NoPin]

CBInit ==
    /\ CoreInit
    /\ do = DoIdle
    /\ ctxDone = FALSE
    /\ LBStart("round-robin", << >>, FALSE)

\* AllowRequest up to its return, or up to the release of the read lock
CBAllowRequest(c, b) ==
    /\ callers[c].pc = "idle"
    /\ LET d == AllowRequestRead(breaker[b], now)
           alone == \A o \in Callers : ~(callers[o].pc = "flip" /\ callers[o].b = b)
       IN callers' = [callers EXCEPT ![c] =
            CASE d = "allow" -> [pc |-> "admitted", b |-> b,
                                 probe |-> (breaker[b].state = "HalfOpen"),
                                 first |-> FALSE]
              [] d = "flip" -> [pc |-> "flip", b |-> b, probe |-> TRUE,
                                first |-> alone]
              [] OTHER -> IdleCaller]
    /\ UNCHANGED <<now, breaker, consecFailures>>
    /\ UNCHANGED <<retryVars, lbVars, auxVars>>

\* the rest of AllowRequest: write lock, state = HalfOpen, return true
CBAllowFlip(c) ==
    /\ callers[c].pc = "flip"
    /\ breaker' = [breaker EXCEPT ![callers[c].b] = AllowRequestFlip(@)]
    /\ callers' = [callers EXCEPT ![c].pc = "admitted", ![c].first = FALSE]
    /\ UNCHANGED <<now, consecFailures>>
    /\ UNCHANGED <<retryVars, lbVars, auxVars>>

CBRecordSuccess(c) ==
    /\ callers[c].pc = "admitted"
    /\ breaker' = [breaker EXCEPT ![callers[c].b] = RecordSuccess(@)]
    /\ consecFailures' = [consecFailures EXCEPT ![callers[c].b] = 0]
    /\ callers' = [callers EXCEPT ![c] = IdleCaller]
    /\ UNCHANGED <<now, retryVars, lbVars, auxVars>>

CBRecordFailure(c) ==
    /\ callers[c].pc = "admitted"
    /\ breaker[callers[c].b].failureCount < MaxFailures
    /\ breaker' = [breaker EXCEPT ![callers[c].b] = RecordFailure(@, now)]
    /\ consecFailures' = [consecFailures EXCEPT ![callers[c].b] = @ + 1]
    /\ callers' = [callers EXCEPT ![c] = IdleCaller]
    /\ UNCHANGED <<now, retryVars, lbVars, auxVars>>

Tick ==
    /\ now < MaxTime
    /\ now' = now + 1
    /\ UNCHANGED <<breaker, consecFailures, callers, retryVars, lbVars, auxVars>>

CBNext ==
    \/ \E c \in Callers, b \in CBSubjects : CBAllowRequest(c, b)
    \/ \E c \in Callers : CBAllowFlip(c)
    \/ \E c \in Callers : CBRecordSuccess(c)
    \/ \E c \in Callers : CBRecordFailure(c)
    \/ Tick

SpecCB == CBInit /\ [][CBNext]_vars

(***************************************************************************)
(* retry.Do                                                                *)
(***************************************************************************)
\* an error value: its kind ("RetryableError", or "error" for any other error
\* type) and the attempt that produced it
Err(kind, attempt) == [kind |-> kind, attempt |-> attempt]
CtxErr == [kind |-> "ctx", attempt |-> 0]

\* errors.As(err, &retryableErr)
IsRetryable(e) == e.kind = "RetryableError"

\* interval * Multiplier, capped at MaxInterval
Backoff(interval) ==
    IF interval * Multiplier > MaxInterval THEN MaxInterval ELSE interval * Multiplier

\* time.Duration(rand.Float64() * jitter) with jitter = interval * Randomization:
\* the whole numbers below jitter, and 0
Jitters(interval) ==
    {d \in 0..interval : d = 0 \/ d * 100 < interval * RandomizationPct}

DoStart(m) ==
    [pc |-> "call", maxRetries |-> m, i |-> 0, err |-> Nil,
     interval |-> InitialInterval, outcomes |-> <<>>, waits |-> <<>>,
     result |-> NoResult]

DoReturn(d, r) == [d EXCEPT !.pc = "returned", !.result = r]

\* err = fn() and the two returns that follow it
DoAfterCall(d, kind) ==
    LET e  == Err(kind, Len(d.outcomes) + 1)
        d1 == [d EXCEPT !.err = e, !.outcomes = Append(d.outcomes, kind)]
    IN IF kind = "nil" THEN DoReturn([d1 EXCEPT !.err = Nil], Nil)
       ELSE IF ~IsRetryable(e) THEN DoReturn(d1, e)
       ELSE [d1 EXCEPT !.pc = "check"]

\* the look at ctx.Done() left out
DoAfterCheck_IgnoreCtx(d, done, j) ==
    [d EXCEPT !.pc = "wait", !.interval = Backoff(d.interval) + j]

\* the non-blocking look at ctx.Done(), then the next interval with jitter j
DoAfterCheck(d, done, j) ==
    IF done THEN DoReturn(d, CtxErr)
    ELSE [d EXCEPT !.pc = "wait", !.interval = Backoff(d.interval) + j]

\* the timer of the backoff select fires: i++ and the loop condition
DoAfterWait(d) ==
    LET d1 == [d EXCEPT !.i = d.i + 1, !.waits = Append(d.waits, d.interval)]
    IN IF d1.i <= d1.maxRetries THEN [d1 EXCEPT !.pc = "call"]
       ELSE DoReturn(d1, d1.err)

RetryInit ==
    /\ CoreInit
    /\ callers = [c \in Callers |-> IdleCaller]
    /\ do \in {DoStart(m) : m \in 0..MaxRetries}
    /\ ctxDone = FALSE
    /\ LBStart("round-robin", << >>, FALSE)

DoCallFn ==
    /\ do.pc = "call"
    /\ \E kind \in {"nil", "RetryableError", "error"} : do' = DoAfterCall(do, kind)
    /\ UNCHANGED <<cbVars, ctxDone, lbVars, auxVars>>

DoCheckCtx ==
    /\ do.pc = "check"
    /\ \E j \in Jitters(Backoff(do.interval)) : do' = DoAfterCheck(do, ctxDone, j)
    /\ UNCHANGED <<cbVars, ctxDone, lbVars, auxVars>>

\* the time.After case of the backoff select. The timer is started when the
\* select is entered and its interval is positive, so it is not ready then; a
\* goroutine parked in the select is woken by whichever of the two channels
\* becomes ready first, so the timer case is taken only while ctx is not done
DoWaitElapsed ==
    /\ do.pc = "wait"
    /\ ~ctxDone
    /\ do' = DoAfterWait(do)
    /\ UNCHANGED <<cbVars, ctxDone, lbVars, auxVars>>

\* the ctx.Done() case of the backoff select
DoWaitCancelled ==
    /\ do.pc = "wait"
    /\ ctxDone
    /\ do' = DoReturn(do, CtxErr)
    /\ UNCHANGED <<cbVars, ctxDone, lbVars, auxVars>>

CancelCtx ==
    /\ do.pc # "returned"
    /\ ~ctxDone
    /\ ctxDone' = TRUE
    /\ UNCHANGED <<cbVars, do, lbVars, auxVars>>

RetryNext ==
    \/ DoCallFn
    \/ DoCheckCtx
    \/ DoWaitElapsed
    \/ DoWaitCancelled
    \/ CancelCtx

SpecRetry == RetryInit /\ [][RetryNext]_vars

(***************************************************************************)
(* backend.Backend and the selection policies of package balancer          *)
(***************************************************************************)
Registered == {keys[i] : i \in 1..Len(keys)}

\* Backend.Weight, as configured
Weight(b) == CASE b = "A" -> 1 [] b = "B" -> 2 [] OTHER -> 3

\* AllowRequest as one step: its result and the breaker it leaves
AllowRequest(cb, t) ==
    LET d == AllowRequestRead(cb, t)
    IN [ok |-> d # "reject", cb |-> IF d = "flip" THEN AllowRequestFlip(cb) ELSE cb]

\* Backend.IsAvailable: IsHealthy && circuitBreaker.AllowRequest()
IsAvailable(b) ==
    IF healthy[b] THEN AllowRequest(breaker[b], now)
    ELSE [ok |-> FALSE, cb |-> breaker[b]]

\* what calling IsAvailable on every registered backend finds and leaves
Available == {b \in Registered : IsAvailable(b).ok}
BreakersAfterScan ==
    [b \in Backends |-> IF b \in Registered THEN IsAvailable(b).cb ELSE breaker[b]]

\* the result of a Next call: the backend or the error, and the selector and
\* breaker state the call leaves
NextResult(b, err, rr, cw, brk) == [b |-> b, err |-> err, rr |-> rr, cw |-> cw, brk |-> brk]

\* the nil *backend.Backend
NilBackend == "nil"

\* rb.backends[id]: the backend stored under id, or nil
Lookup(id) == IF id \in registry THEN id ELSE NilBackend

\* a roundRobin.Next that reports an empty balancer as ErrNoHealthyBackends
RoundRobinNext_NoHealthy ==
    IF registry = {}
    THEN {NextResult("", "ErrNoHealthyBackends", rrCurrent, currentWeights, breaker)}
    ELSE {NextResult(Lookup(keys[rrCurrent + 1]), "", (rrCurrent + 1) % Len(keys),
                     currentWeights, breaker)}

\* a roundRobin.Next that returns the backend after the cursor
RoundRobinNext_SkipFirst ==
    IF registry = {}
    THEN {NextResult("", "ErrNoBackends", rrCurrent, currentWeights, breaker)}
    ELSE {NextResult(Lookup(keys[((rrCurrent + 1) % Len(keys)) + 1]), "",
                     (rrCurrent + 1) % Len(keys), currentWeights, breaker)}

\* roundRobin.Next
RoundRobinNext ==
    IF registry = {}
    THEN {NextResult("", "ErrNoBackends", rrCurrent, currentWeights, breaker)}
    ELSE {NextResult(Lookup(keys[rrCurrent + 1]), "", (rrCurrent + 1) % Len(keys),
                     currentWeights, breaker)}

\* leastConnections.Next: the map is ranged over in any order, so any of the
\* available backends with the fewest connections can be the one kept
LeastConnectionsNext ==
    IF registry = {}
    THEN {NextResult("", "ErrNoBackends", rrCurrent, currentWeights, breaker)}
    ELSE IF Available = {}
    THEN {NextResult("", "ErrNoHealthyBackends", rrCurrent, currentWeights,
                     BreakersAfterScan)}
    ELSE {NextResult(b, "", rrCurrent, currentWeights, BreakersAfterScan) :
            b \in {a \in Available : \A o \in Available : conns[a] <= conns[o]}}

\* the loop of weightedRoundRobin.Next with ties going to the later backend
RECURSIVE WRRScan_TieLast(_, _)
WRRScan_TieLast(i, st) ==
    IF i > Len(keys) THEN st
    ELSE LET b == keys[i] IN
         IF b \notin Available THEN WRRScan_TieLast(i + 1, st)
         ELSE LET cw   == [st.cw EXCEPT ![b] = @ + Weight(b)]
                  pick == st.sel = 0 \/ cw[b] >= st.max
              IN WRRScan_TieLast(i + 1,
                         [cw |-> cw, total |-> st.total + Weight(b),
                          sel |-> IF pick THEN i ELSE st.sel,
                          max |-> IF pick THEN cw[b] ELSE st.max])

\* the loop of weightedRoundRobin.Next raising the current weight of every
\* backend, available or not
RECURSIVE WRRScan_RaiseAll(_, _)
WRRScan_RaiseAll(i, st) ==
    IF i > Len(keys) THEN st
    ELSE LET b  == keys[i]
             cw == [st.cw EXCEPT ![b] = @ + Weight(b)]
         IN IF b \notin Available
            THEN WRRScan_RaiseAll(i + 1, [st EXCEPT !.cw = cw])
            ELSE LET pick == st.sel = 0 \/ cw[b] > st.max
                 IN WRRScan_RaiseAll(i + 1,
                         [cw |-> cw, total |-> st.total + Weight(b),
                          sel |-> IF pick THEN i ELSE st.sel,
                          max |-> IF pick THEN cw[b] ELSE st.max])

\* the loop of weightedRoundRobin.Next from index i on; sel = 0 stands for -1
RECURSIVE WRRScan(_, _)
WRRScan(i, st) ==
    IF i > Len(keys) THEN st
    ELSE LET b == keys[i] IN
         IF b \notin Available THEN WRRScan(i + 1, st)
         ELSE LET cw   == [st.cw EXCEPT ![b] = @ + Weight(b)]
                  pick == st.sel = 0 \/ cw[b] > st.max
              IN WRRScan(i + 1,
                         [cw |-> cw, total |-> st.total + Weight(b),
                          sel |-> IF pick THEN i ELSE st.sel,
                          max |-> IF pick THEN cw[b] ELSE st.max])

\* a weightedRoundRobin.Next that leaves the chosen backend's weight as it is
WeightedRoundRobinNext_NoAdjust ==
    IF registry = {}
    THEN {NextResult("", "ErrNoBackends", rrCurrent, currentWeights, breaker)}
    ELSE LET st == WRRScan(1, [cw |-> currentWeights, total |-> 0, sel |-> 0, max |-> 0 - 1])
         IN IF st.sel = 0
            THEN {NextResult("", "ErrNoHealthyBackends", rrCurrent, st.cw,
                             BreakersAfterScan)}
            ELSE {NextResult(keys[st.sel], "", rrCurrent, st.cw, BreakersAfterScan)}

\* weightedRoundRobin.Next
WeightedRoundRobinNext ==
    IF registry = {}
    THEN {NextResult("", "ErrNoBackends", rrCurrent, currentWeights, breaker)}
    ELSE LET st == WRRScan(1, [cw |-> currentWeights, total |-> 0, sel |-> 0, max |-> 0 - 1])
         IN IF st.sel = 0
            THEN {NextResult("", "ErrNoHealthyBackends", rrCurrent, st.cw,
                             BreakersAfterScan)}
            ELSE {NextResult(keys[st.sel], "", rrCurrent,
                             [st.cw EXCEPT ![keys[st.sel]] = @ - st.total],
                             BreakersAfterScan)}

\* Balancer.Next of the balancer that balancer.New built
Next ==
    CASE algorithm = "least-connections" -> LeastConnectionsNext
      [] algorithm = "weighted-round-robin" -> WeightedRoundRobinNext
      [] OTHER -> RoundRobinNext

(***************************************************************************)
(* session.Manager, keyed by client address                                *)
(***************************************************************************)
\* a lookup that finds no session
GetBackendID_NoLookup(c) == ""

\* Manager.GetBackendID
GetBackendID(c) ==
    IF ~sticky THEN ""
    ELSE IF c = "" THEN ""
    ELSE IF sessions[c].backendID = "" \/ now > sessions[c].expiresAt THEN ""
    ELSE sessions[c].backendID

Live(ss) == {c \in Clients : ss[c].backendID # ""}

\* an evictOldestSession that deletes nothing
EvictOldestSession_None(ss) == {ss}

\* evictOldestSession: the map is ranged over in any order, so any entry with
\* the earliest ExpiresAt can be the one deleted
EvictOldestSession(ss) ==
    IF Live(ss) = {} THEN {ss}
    ELSE {[ss EXCEPT ![o] = NoSession] :
            o \in {c \in Live(ss) : \A x \in Live(ss) : ss[c].expiresAt <= ss[x].expiresAt}}

\* the session keys SetBackendID can use for a request that presented key c:
\* the client address or the cookie it sent or, in cookie mode without a
\* cookie, a generated key (the hash of the clock, which no session has yet)
SessionKeys(c) ==
    IF c # "" THEN {c}
    ELSE IF sm.type = "cookie" THEN {k \in Clients : sessions[k] = NoSession}
    ELSE {}

\* Manager.SetBackendID for a request that presented key c, writing to w: the
\* stores and the writers it can leave
SetBackendID(c, w, id) ==
    IF ~sticky \/ id = "" THEN {[store |-> sessions, w |-> w, key |-> ""]}
    ELSE IF SessionKeys(c) = {} THEN {[store |-> sessions, w |-> w, key |-> ""]}
    ELSE {[store |-> [base EXCEPT ![k] = [backendID |-> id, expiresAt |-> now + SessionTTL]],
           w     |-> IF c = "" THEN SetCookie(w, k) ELSE w,
           key   |-> k] :
            k \in SessionKeys(c),
            base \in (IF Cardinality(Live(sessions)) >= MaxSessions
                      THEN EvictOldestSession(sessions) ELSE {sessions})}

\* Manager.cleanup
Cleanup ==
    [c \in Clients |-> IF sessions[c].backendID # "" /\ now > sessions[c].expiresAt
                       THEN NoSession ELSE sessions[c]]

(***************************************************************************)
(* proxy.Proxy                                                             *)
(***************************************************************************)
\* the function forwardRequest hands to retry.Do: the kind of error it returns
\* for an upstream answer
AttemptFn(resp) ==
    IF resp = 0 THEN "error"
    ELSE IF resp >= 500 THEN "error"
    ELSE "nil"

\* the status ServeHTTP answers for an error of forwardRequest
ErrorStatus(e) ==
    CASE e.kind = "ErrBackendUnavailable" -> 503
      [] e.kind = "ErrBackendError" -> 502
      [] OTHER -> 500

Inc(f, b) == [f EXCEPT ![b] = @ + 1]
\* Metrics.DecrementActiveConnections
Dec(f, b) == [f EXCEPT ![b] = IF @ > 0 THEN @ - 1 ELSE @]

\* ServeHTTP ended by a panic: nothing was written to the client
Panicked == Answered("panic", 0, << >>)

\* the request slot once forwardRequest has called retry.Do for client c and
\* backend b. GetRetryConfig returns the pointer SetRetryConfig stored; when
\* it was never called that pointer is nil and Do panics on its first
\* statement, config.InitialInterval: no upstream call is made, the deferred
\* DecrementActiveConnections runs and ServeHTTP does not return normally
Started(c, b, via) ==
    IF retryCfg
    THEN [pc |-> "forwarding", client |-> c, b |-> b, via |-> via,
          do |-> DoStart(MaxRetries), resps |-> << >>]
    ELSE IdleReq

\* ServeHTTP up to the upstream call: session lookup, GetBackend or Next, the
\* request counters, and the first statements of forwardRequest
Arrive(r, c) ==
    /\ req[r].pc = "idle"
    /\ \A q \in Reqs : q < r => req[q].pc # "idle"
    /\ metrics.totalRequests < MaxRequests
    /\ LET id     == GetBackendID(c)
           pinned == IF id # "" /\ id \in Registered THEN id ELSE ""
       IN IF pinned # ""
          THEN /\ req' = [req EXCEPT ![r] = Started(c, pinned, "session")]
               /\ metrics' = [metrics EXCEPT
                    !.totalRequests = @ + 1,
                    !.backendRequests = Inc(@, pinned),
                    !.activeConnections = IF retryCfg THEN Inc(@, pinned) ELSE @]
               /\ last' = IF retryCfg THEN last ELSE Panicked
               /\ UNCHANGED <<breaker, rrCurrent, currentWeights, streak500>>
          ELSE \E n \in Next :
               /\ rrCurrent' = n.rr
               /\ currentWeights' = n.cw
               /\ breaker' = n.brk
               /\ IF n.err # ""
                  THEN /\ metrics' = [metrics EXCEPT
                            !.totalRequests = @ + 1,
                            !.failedRequests = @ + 1]
                       /\ last' = Answered(n.err, 503, << >>)
                       /\ streak500' = 0
                       /\ UNCHANGED req
                  ELSE /\ req' = [req EXCEPT ![r] = Started(c, n.b, "next")]
                       /\ metrics' = [metrics EXCEPT
                            !.totalRequests = @ + 1,
                            !.backendRequests = Inc(@, n.b),
                            !.activeConnections = IF retryCfg THEN Inc(@, n.b) ELSE @]
                       /\ last' = IF retryCfg THEN last ELSE Panicked
                       /\ UNCHANGED streak500
    /\ UNCHANGED <<now, consecFailures, callers, retryVars, auxVars, algorithm, keys, sticky,
                   healthy, conns, sessions, pin>>

\* one upstream call of forwardRequest's retry.Do and, when Do returns, the rest
\* of forwardRequest and of ServeHTTP: forwardRequest calls WriteHeader and
\* copies the body, and only then ServeHTTP calls SetBackendID with the writer. The client stays connected (r.Context()
\* is not cancelled); copied tells whether io.Copy to the client succeeded.
Forward(r, resp, copied) ==
    /\ req[r].pc = "forwarding"
    /\ LET b  == req[r].b
           d1 == DoAfterCall(req[r].do, AttemptFn(resp))
           d  == IF d1.pc = "check" THEN DoAfterWait(DoAfterCheck(d1, FALSE, 0)) ELSE d1
           rs == Append(req[r].resps, resp)
       IN IF d.pc # "returned"
          THEN /\ req' = [req EXCEPT ![r].do = d, ![r].resps = rs]
               /\ UNCHANGED <<breaker, metrics, sessions, last, streak500, pin, served>>
          ELSE IF d.result # Nil
          THEN /\ breaker' = [breaker EXCEPT ![b] = RecordFailure(@, now)]
               /\ metrics' = [metrics EXCEPT
                    !.activeConnections = Dec(@, b),
                    !.backendFailures = Inc(@, b)]
               /\ req' = [req EXCEPT ![r] = IdleReq]
               /\ last' = Answered("", ErrorStatus(d.result), rs)
               /\ streak500' = IF resp >= 500 THEN streak500 + 1 ELSE 0
               /\ UNCHANGED <<sessions, pin, served>>
          ELSE /\ breaker' = [breaker EXCEPT ![b] = RecordSuccess(@)]
               /\ metrics' = [metrics EXCEPT
                    !.activeConnections = Dec(@, b),
                    !.backendFailures = IF copied THEN @ ELSE Inc(@, b)]
               /\ req' = [req EXCEPT ![r] = IdleReq]
               /\ last' = Answered("", resp, rs)
               /\ streak500' = 0
               /\ IF copied /\ sm # NoManager
                  THEN \E o \in SetBackendID(req[r].client, WriteHeader(NewWriter), b) :
                       /\ sessions' = o.store
                       /\ pin' = IF o.key # ""
                                 THEN [pin EXCEPT ![o.key] = [b |-> b, at |-> now]]
                                 ELSE pin
                       /\ served' = [key |-> req[r].client, b |-> b,
                                      setCookie |-> o.w.header, delivered |-> o.w.sent]
                  ELSE UNCHANGED <<sessions, pin, served>>
    /\ UNCHANGED <<now, consecFailures, callers, retryVars, connOps, sched, loops, sm, picks,
                   retryCfg, harnessVars, algorithm, keys, sticky, healthy, conns, rrCurrent,
                   currentWeights>>

\* a probe of the health scheduler finishes: Backend.SetHealth(result.Success)
HealthCheck(b, ok) ==
    /\ b \in Registered
    /\ healthy' = [healthy EXCEPT ![b] = ok]
    /\ UNCHANGED <<cbVars, retryVars, auxVars, algorithm, keys, sticky, conns, rrCurrent,
                   currentWeights, sessions, metrics, req, last, streak500, pin>>

\* a tick of the session manager's cleanup loop
SessionCleanup ==
    /\ sm.sweeper
    /\ sessions' = Cleanup
    /\ UNCHANGED <<cbVars, retryVars, auxVars, algorithm, keys, sticky, healthy, conns,
                   rrCurrent, currentWeights, metrics, req, last, streak500, pin>>

\* the load balancer as main builds it: any policy, any backend list, and no
\* session manager (main never calls SetSessionManager), so that the client's
\* address is never read
Init ==
    /\ CoreInit
    /\ do = DoIdle
    /\ ctxDone = FALSE
    /\ \E alg \in Algorithms, ks \in KeyLists : LBStart(alg, ks, FALSE)

LBNext ==
    \/ \E r \in Reqs : Arrive(r, "c1")
    \/ \E r \in Reqs, resp \in Responses, copied \in BOOLEAN : Forward(r, resp, copied)
    \/ \E b \in Backends, ok \in BOOLEAN : HealthCheck(b, ok)
    \/ Tick

Spec == Init /\ [][LBNext]_vars

\* the proxy with an enabled session manager, as the proxy's test builds it;
\* StickyRequests requests arrive, the upstreams answer 200 or 500 and the
\* clients take the whole body
StickyInit ==
    /\ BaseInit
    /\ sm = SMNew("ip")
    /\ retryCfg = TRUE
    /\ do = DoIdle
    /\ ctxDone = FALSE
    /\ \E ks \in KeyLists : LBStart("round-robin", ks, TRUE)

StickyNext ==
    \/ \E r \in Reqs, c \in Clients :
            metrics.totalRequests < StickyRequests /\ Arrive(r, c)
    \/ \E r \in Reqs, resp \in {200, 500} : Forward(r, resp, TRUE)
    \/ \E b \in Backends, ok \in BOOLEAN : HealthCheck(b, ok)
    \/ SessionCleanup
    \/ Tick

SpecSticky == StickyInit /\ [][StickyNext]_vars

\* the proxy with a session manager of either type, enabled or not, in front
\* of two backends; a request presents a session key (its address, or the
\* value of its session cookie) or, in cookie mode, none
SessionInit ==
    /\ BaseInit
    /\ retryCfg = TRUE
    /\ do = DoIdle
    /\ ctxDone = FALSE
    /\ \E type \in {"ip", "cookie"} : sm = SMNew(type)
    /\ \E enabled \in BOOLEAN : LBStart("round-robin", <<"A", "B">>, enabled)

SessionNext ==
    \/ \E r \in Reqs, c \in Clients \cup {""} :
            /\ metrics.totalRequests < StickyRequests
            /\ c = "" => sm.type = "cookie"
            /\ Arrive(r, c)
    \/ \E r \in Reqs, resp \in {200, 500} : Forward(r, resp, TRUE)
    \/ SessionCleanup
    \/ Tick

SpecSession == SessionInit /\ [][SessionNext]_vars

\* the proxy and a balancer of any policy as the tests build them: no backend
\* added (TestGetBackendNoBackends), or backends made by backend.New on which
\* SetRetryConfig was called (the test of part_005) or not (proxy_test.go)
BareInit ==
    /\ BaseInit
    /\ sm = NoManager
    /\ retryCfg \in BOOLEAN
    /\ do = DoIdle
    /\ ctxDone = FALSE
    /\ \E alg \in Algorithms, ks \in {<< >>, <<"A">>} : LBStart(alg, ks, FALSE)

BareNext ==
    \/ \E r \in Reqs : Arrive(r, "c1")
    \/ \E r \in Reqs, resp \in Responses : Forward(r, resp, TRUE)
    \/ Tick

SpecBare == BareInit /\ [][BareNext]_vars

(***************************************************************************)
(* An enabled session manager called directly: lookups, stores and sweeps   *)
(* for client addresses, at any time.                                       *)
(***************************************************************************)
Called(op, key, result) == [op |-> op, at |-> now, key |-> key, result |-> result]

\* a call of Manager.GetBackendID: the store is only read, under the read lock
StoreGet(c) ==
    /\ smOp' = Called("GetBackendID", c, GetBackendID(c))
    /\ UNCHANGED <<cbVars, retryVars, lbVars, connOps, sched, loops, sm, served, picks,
                   retryCfg, registry, rrCalls>>

\* a call of Manager.SetBackendID
StoreSet(c, id) ==
    /\ \E o \in SetBackendID(c, NewWriter, id) : sessions' = o.store
    /\ smOp' = Called("SetBackendID", c, "")
    /\ UNCHANGED <<cbVars, retryVars, connOps, sched, loops, sm, served, picks, retryCfg,
                   registry, rrCalls, algorithm, keys, sticky, healthy, conns, rrCurrent,
                   currentWeights, metrics, req, last, streak500, pin>>

\* a call of Manager.cleanup by the cleanup loop
StoreSweep ==
    /\ sm.sweeper
    /\ sessions' = Cleanup
    /\ smOp' = Called("cleanup", "", "")
    /\ UNCHANGED <<cbVars, retryVars, connOps, sched, loops, sm, served, picks, retryCfg,
                   registry, rrCalls, algorithm, keys, sticky, healthy, conns, rrCurrent,
                   currentWeights, metrics, req, last, streak500, pin>>

StoreInit ==
    /\ BaseInit
    /\ sm = SMNew("ip")
    /\ retryCfg = TRUE
    /\ do = DoIdle
    /\ ctxDone = FALSE
    /\ LBStart("round-robin", <<"A", "B">>, TRUE)

StoreNext ==
    \/ \E c \in Clients : StoreGet(c)
    \/ \E c \in Clients, id \in Registered : StoreSet(c, id)
    \/ StoreSweep
    \/ Tick

SpecStore == StoreInit /\ [][StoreNext]_vars

\* C34: after a sweep at time T every entry left in the store has
\* expiresAt > T (an entry with expiresAt = T is removed), and no entry with
\* expiresAt > T is removed.
C34_SweepBoundary ==
    [][StoreSweep =>
          \A c \in Clients :
             /\ sessions'[c] # NoSession => sessions'[c].expiresAt > now
             /\ (sessions[c] # NoSession /\ sessions[c].expiresAt > now) =>
                   sessions'[c] = sessions[c]]_vars

\* C35: GetBackendID treats an entry with expiresAt <= now as absent, also
\* when expiresAt equals now, and never deletes or modifies an entry.
C35_LookupBoundary ==
    [][\A c \in Clients :
          StoreGet(c) =>
             /\ sessions' = sessions
             /\ (sessions[c] = NoSession \/ sessions[c].expiresAt <= now) =>
                   smOp'.result = ""]_vars

(***************************************************************************)
(* A selector alone, as the balancer's tests drive it: backends are added   *)
(* and Next() is called again and again. Nothing changes a backend's health *)
(* or records a failure, so every backend stays selectable.                 *)
(***************************************************************************)
\* the lists AddBackend can build: every order of every non-empty set of backends
SelKeyLists ==
    {ks \in UNION {[1..n -> Backends] : n \in 1..Cardinality(Backends)} :
        \A i, j \in DOMAIN ks : i # j => ks[i] # ks[j]}

SelectInit ==
    /\ CoreInit
    /\ do = DoIdle
    /\ ctxDone = FALSE
    /\ \E alg \in {"round-robin", "weighted-round-robin"}, ks \in SelKeyLists :
            LBStart(alg, ks, FALSE)

\* one call of Balancer.Next by the test's loop, which notes what it returned;
\* the loop makes max calls
SelCall(max) ==
    /\ Len(picks) < max
    /\ \E n \in Next :
            /\ rrCurrent' = n.rr
            /\ currentWeights' = n.cw
            /\ breaker' = n.brk
            /\ picks' = Append(picks, n.b)
    /\ UNCHANGED <<now, consecFailures, callers, retryVars, connOps, sched, loops, sm,
                   served, retryCfg, harnessVars, algorithm, keys, sticky, healthy, conns,
                   sessions,
                   metrics, req, last, streak500, pin>>

SelNext == SelCall(MaxPicks)

SpecSelect == SelectInit /\ [][SelNext]_vars

(***************************************************************************)
(* A weighted round-robin selector over a fixed set of backends whose       *)
(* health the health checks change between the calls of Next().             *)
(***************************************************************************)
WeightedInit ==
    /\ CoreInit
    /\ do = DoIdle
    /\ ctxDone = FALSE
    /\ \E ks \in SelKeyLists : LBStart("weighted-round-robin", ks, FALSE)

WNextCall == SelCall(MaxWPicks)

WeightedNext ==
    \/ WNextCall
    \/ \E b \in Backends, ok \in BOOLEAN : HealthCheck(b, ok)

SpecWeighted == WeightedInit /\ [][WeightedNext]_vars

\* the sum of the current weights of the backends from index i on
RECURSIVE CurrentWeightSum(_)
CurrentWeightSum(i) ==
    IF i > Len(keys) THEN 0 ELSE currentWeights[keys[i]] + CurrentWeightSum(i + 1)

\* C40: for a fixed set of registered backends, after every weighted
\* round-robin Next() call the sum of all backends' current weights is 0,
\* whether or not some backends were unselectable during the call; a call
\* that finds nothing selectable changes no current weight.
C40_CurrentWeightsSumZero ==
    /\ [](CurrentWeightSum(1) = 0)
    /\ [][(WNextCall /\ Available = {}) => currentWeights' = currentWeights]_vars

\* calls were made with every backend selectable, with none, and with some
\* but not all; the current weights are not all 0
C40_Witness ==
    /\ Len(picks) >= 3
    /\ \E i \in 1..Len(picks) : picks[i] = ""
    /\ picks[Len(picks)] # ""
    /\ \E b \in Registered : ~healthy[b]
    /\ \E b \in Registered : healthy[b]
    /\ \E b \in Registered : ~healthy[b] /\ currentWeights[b] # 0

(***************************************************************************)
(* Backend.CurrentConns under concurrent callers                           *)
(***************************************************************************)
\* IncrementConnections: atomic.AddInt32(&b.CurrentConns, 1)
ConnIncrement(w, b) ==
    /\ connOps[w].pc = "idle"
    /\ conns[b] < MaxConns
    /\ conns' = [conns EXCEPT ![b] = @ + 1]
    /\ UNCHANGED <<cbVars, retryVars, connOps, sched, loops, otherVars, algorithm, keys, sticky,
                   healthy, rrCurrent, currentWeights, sessions, metrics, req, last,
                   streak500, pin>>

\* DecrementConnections up to its return at 0, or up to the add: the counter is
\* loaded and compared with 0. No further call is made once the counter is
\* negative, which keeps it within MaxWorkers of 0
ConnDecrementLoad(w, b) ==
    /\ connOps[w].pc = "idle"
    /\ conns[b] >= 0
    /\ connOps' = [connOps EXCEPT ![w] =
            IF conns[b] = 0 THEN IdleOp ELSE [pc |-> "add", b |-> b]]
    /\ UNCHANGED <<cbVars, retryVars, lbVars, sched, loops, otherVars>>

\* the rest of DecrementConnections: atomic.AddInt32(&b.CurrentConns, -1)
ConnDecrementAdd(w) ==
    /\ connOps[w].pc = "add"
    /\ conns' = [conns EXCEPT ![connOps[w].b] = @ - 1]
    /\ connOps' = [connOps EXCEPT ![w] = IdleOp]
    /\ UNCHANGED <<cbVars, retryVars, sched, loops, otherVars, algorithm, keys, sticky,
                   healthy, rrCurrent, currentWeights, sessions, metrics, req, last,
                   streak500, pin>>

ConnsInit ==
    /\ CoreInit
    /\ do = DoIdle
    /\ ctxDone = FALSE
    /\ LBStart("round-robin", <<"A", "B">>, FALSE)

ConnsNext ==
    \/ \E w \in Workers, b \in Backends : ConnIncrement(w, b)
    \/ \E w \in Workers, b \in Backends : ConnDecrementLoad(w, b)
    \/ \E w \in Workers : ConnDecrementAdd(w)

SpecConns == ConnsInit /\ [][ConnsNext]_vars

\* C14: whatever the interleaving of IncrementConnections and
\* DecrementConnections calls, the connection counter of a backend is never
\* negative.
C14_ConnsNeverNegative == \A b \in Backends : conns[b] >= 0

(***************************************************************************)
(* health.Scheduler                                                        *)
(***************************************************************************)
\* close(s.stop) has been executed
Stopped == sched.stopCalls > 0

\* what no step of the scheduler touches
HSFrame ==
    UNCHANGED <<cbVars, retryVars, connOps, otherVars, algorithm, keys, sticky, conns, rrCurrent,
                currentWeights, sessions, metrics, req, last, streak500, pin>>

\* Scheduler.AddBackend
HSAddBackend(b) ==
    /\ ~sched.panicked
    /\ b \notin sched.backends
    /\ sched' = [sched EXCEPT !.backends = @ \cup {b}]
    /\ UNCHANGED <<loops, healthy>>
    /\ HSFrame

\* Scheduler.RemoveBackend
HSRemoveBackend(b) ==
    /\ ~sched.panicked
    /\ b \in sched.backends
    /\ sched' = [sched EXCEPT !.backends = @ \ {b}]
    /\ UNCHANGED <<loops, healthy>>
    /\ HSFrame

\* Scheduler.Start: one runChecker goroutine for every checker registered now
HSStart ==
    /\ ~sched.panicked
    /\ ~sched.started
    /\ sched' = [sched EXCEPT !.started = TRUE]
    /\ loops' = [b \in Backends |->
                    IF b \in sched.backends
                    THEN [pc |-> "select", ok |-> FALSE, tick |-> FALSE]
                    ELSE loops[b]]
    /\ UNCHANGED healthy
    /\ HSFrame

\* the ticker of b's loop puts a tick in its channel. A loop parked in the
\* select when stop was closed has been woken by stop, so no tick gets to it
HSTickerFires(b) ==
    /\ ~sched.panicked
    /\ loops[b].pc \in {"select", "publish"}
    /\ ~loops[b].tick
    /\ ~(loops[b].pc = "select" /\ Stopped)
    /\ loops' = [loops EXCEPT ![b].tick = TRUE]
    /\ UNCHANGED <<sched, healthy>>
    /\ HSFrame

\* runChecker takes the ticker case of its select and runs checker.Check
HSProbe(b, ok) ==
    /\ ~sched.panicked
    /\ loops[b].pc = "select"
    /\ loops[b].tick
    /\ loops' = [loops EXCEPT ![b] = [pc |-> "publish", ok |-> ok, tick |-> FALSE]]
    /\ UNCHANGED <<sched, healthy>>
    /\ HSFrame

\* s.results <- result, which blocks while the channel is full, and then
\* SetHealth(result.Success) if the backend is still in s.backends
HSPublish(b) ==
    /\ ~sched.panicked
    /\ loops[b].pc = "publish"
    /\ sched.results < ResultsCap
    /\ sched' = [sched EXCEPT !.results = @ + 1]
    /\ healthy' = IF b \in sched.backends
                  THEN [healthy EXCEPT ![b] = loops[b].ok] ELSE healthy
    /\ loops' = [loops EXCEPT ![b].pc = "select"]
    /\ HSFrame

\* runChecker takes the stop case of its select and returns
HSExit(b) ==
    /\ ~sched.panicked
    /\ loops[b].pc = "select"
    /\ Stopped
    /\ loops' = [loops EXCEPT ![b].pc = "exited"]
    /\ UNCHANGED <<sched, healthy>>
    /\ HSFrame

\* a reader of Results() takes one result
HSConsume ==
    /\ ~sched.panicked
    /\ sched.results > 0
    /\ sched' = [sched EXCEPT !.results = @ - 1]
    /\ UNCHANGED <<loops, healthy>>
    /\ HSFrame

\* Scheduler.Stop: close(s.stop). Closing a closed channel panics, which ends
\* the process and every goroutine in it
HSStop ==
    /\ ~sched.panicked
    /\ sched.stopCalls < MaxStops
    /\ sched' = [sched EXCEPT !.stopCalls = @ + 1, !.panicked = Stopped]
    /\ loops' = IF Stopped
                THEN [b \in Backends |->
                        IF loops[b].pc = "none" THEN loops[b]
                        ELSE [loops[b] EXCEPT !.pc = "exited"]]
                ELSE loops
    /\ UNCHANGED healthy
    /\ HSFrame

HealthInit ==
    /\ CoreInit
    /\ do = DoIdle
    /\ ctxDone = FALSE
    /\ LBStart("round-robin", <<"A", "B">>, FALSE)

\* the steps of the runChecker goroutines and of their tickers
HSLoopStep(b) ==
    \/ HSTickerFires(b)
    \/ \E ok \in BOOLEAN : HSProbe(b, ok)
    \/ HSPublish(b)
    \/ HSExit(b)

HealthNext ==
    \/ \E b \in Probed : HSAddBackend(b)
    \/ \E b \in Probed : HSRemoveBackend(b)
    \/ HSStart
    \/ \E b \in Probed : HSLoopStep(b)
    \/ HSConsume
    \/ HSStop

SpecHealth == HealthInit /\ [][HealthNext]_vars

\* the goroutines and the tickers keep running; the select between a ready
\* tick and a closed stop channel is random, so the stop case is taken in the
\* end. Nothing makes a reader of Results() run.
HealthFairness ==
    \A b \in Probed :
        /\ WF_vars(HSTickerFires(b))
        /\ WF_vars(\E ok \in BOOLEAN : HSProbe(b, ok))
        /\ WF_vars(HSPublish(b))
        /\ SF_vars(HSExit(b))

SpecHealthLive == SpecHealth /\ HealthFairness

(***************************************************************************)
(* Properties of selection and forwarding, checked under Spec.             *)
(***************************************************************************)
\* b is healthy and its breaker would admit a request now
Selectable(b) == healthy[b] /\ AllowRequestRead(breaker[b], now) # "reject"

\* ServeHTTP took a request in this step
Arrives == metrics'.totalRequests = metrics.totalRequests + 1

\* slot r starts forwarding, in this step, to the backend Next returned
NextReturned(r) ==
    req[r].pc = "idle" /\ req'[r].pc = "forwarding" /\ req'[r].via = "next"

\* the requests ServeHTTP handed to forwardRequest so far
Dispatched == metrics.backendRequests["A"] + metrics.backendRequests["B"]

\* the upstream that fails MaxRetries times and then answers 200
Script == [i \in 1..(MaxRetries + 1) |-> IF i <= MaxRetries THEN 500 ELSE 200]

\* whether an upstream answer is a transport error or a status >= 500
Failed(resp) == resp = 0 \/ resp >= 500

\* C1: under every policy, the backend Next returns is healthy and its
\* breaker admits requests at the moment Next returns.
C1_NextReturnsSelectable ==
    [][\A r \in Reqs :
         NextReturned(r) =>
            /\ healthy'[req'[r].b]
            /\ AllowRequestRead(breaker'[req'[r].b], now') # "reject"]_vars

\* C2: under every policy, a request that arrives while backends are
\* registered and none of them is selectable gets ErrNoHealthyBackends from
\* Next and the answer 503, and is sent to no upstream.
C2_NoneSelectable ==
    [][(Arrives /\ Registered # {} /\ \A b \in Registered : ~Selectable(b)) =>
         /\ req' = req
         /\ last'.err = "ErrNoHealthyBackends"
         /\ last'.status = 503]_vars

\* C7: with one registered backend, a request that arrives after
\* FailureThreshold requests in a row ended in an upstream 500, and before
\* ResetTimeout has elapsed since the last failure, is answered 503 and is
\* sent to no upstream, under every policy.
C7_FourthRequestRejected ==
    [][(/\ Arrives
        /\ Len(keys) = 1
        /\ streak500 >= FailureThreshold
        /\ now - breaker[keys[1]].lastFailureTime <= ResetTimeout) =>
         /\ req' = req
         /\ last'.status = 503]_vars

\* C8: when the only request served so far went to an upstream that answers
\* as Script says (500 MaxRetries times, then 200), the request took all of
\* Script, the client got 200, no backend failure is counted and
\* total_requests is 1.
C8_RetryUntilSuccess ==
    (/\ Dispatched = 1
     /\ metrics.failedRequests = 0
     /\ last.resps # << >>
     /\ \A i \in 1..Len(last.resps) : last.resps[i] = Script[i]) =>
        /\ last.resps = Script
        /\ last.status = 200
        /\ \A b \in Backends : metrics.backendFailures[b] = 0
        /\ metrics.totalRequests = 1

\* C9: a request all of whose attempts ended in a transport error or an
\* upstream status >= 500 is answered 502.
C9_ExhaustedIs502 ==
    (/\ last.resps # << >>
     /\ \A i \in 1..Len(last.resps) : Failed(last.resps[i])) =>
        last.status = 502

\* the requests that are being forwarded to b
Forwarding(b) == {r \in Reqs : req[r].pc = "forwarding" /\ req[r].b = b}

\* C15: at every instant the in-flight counter of a backend and its
\* active_connections gauge both equal the number of requests that are being
\* forwarded to it (and so are 0 when none is).
C15_InFlightBalanced ==
    \A b \in Backends :
        /\ conns[b] = Cardinality(Forwarding(b))
        /\ metrics.activeConnections[b] = Cardinality(Forwarding(b))

\* forwardRequest returns, in this step, an error for the request in slot r:
\* every attempt it made ended in a transport error or an upstream status >= 500
Exhausted(r) ==
    /\ req[r].pc = "forwarding"
    /\ req'[r].pc = "idle"
    /\ last'.resps # << >>
    /\ \A i \in 1..Len(last'.resps) : Failed(last'.resps[i])

\* C33: when a request's retries are exhausted, backend_failures of its
\* backend and failed_requests are each incremented exactly once.
C33_ExhaustedCounted ==
    [][\A r \in Reqs :
          Exhausted(r) =>
             /\ metrics'.backendFailures[req[r].b] = metrics.backendFailures[req[r].b] + 1
             /\ metrics'.failedRequests = metrics.failedRequests + 1]_vars

\* C38: Next moves the circuit breaker of no backend other than the one it
\* returns: the breaker of every backend that is not selected is unchanged.
C38_NextMovesOnlyReturned ==
    [][\A r \in Reqs :
          NextReturned(r) =>
             \A b \in Backends \ {req'[r].b} : breaker'[b] = breaker[b]]_vars

(***************************************************************************)
(* A round-robin or weighted round-robin selector whose backends are added  *)
(* and removed, as TestAddRemoveBackend does. Next() is called on the       *)
(* round-robin selector in between; the weighted selector is only built up  *)
(* and taken down, so that all its current weights stay 0.                  *)
(***************************************************************************)
\* the slice s without its element at index i
RemoveAt(s, i) == SubSeq(s, 1, i - 1) \o SubSeq(s, i + 1, Len(s))

\* the slice s after RemoveBackend's loop: the first element equal to id is
\* cut out and the loop breaks
RemoveFirst(s, id) ==
    IF \E i \in 1..Len(s) : s[i] = id
    THEN RemoveAt(s, CHOOSE i \in 1..Len(s) :
                        s[i] = id /\ \A k \in 1..(i - 1) : s[k] # id)
    ELSE s

\* AddBackend of either selector: the map entry is set and the id is appended
\* to the key list, whether or not the list has it already
AddBackend(id) ==
    /\ Len(keys) < MaxKeys
    /\ registry' = registry \cup {id}
    /\ keys' = Append(keys, id)
    /\ UNCHANGED <<cbVars, retryVars, connOps, sched, loops, sm, served, picks, retryCfg,
                   smOp, rrCalls, algorithm, sticky, healthy, conns, rrCurrent,
                   currentWeights, sessions, metrics, req, last, streak500, pin>>

\* RemoveBackend of either selector
RemoveBackend(id) ==
    /\ registry' = registry \ {id}
    /\ keys' = RemoveFirst(keys, id)
    /\ rrCurrent' = IF rrCurrent >= Len(keys') THEN 0 ELSE rrCurrent
    /\ UNCHANGED <<cbVars, retryVars, connOps, sched, loops, sm, served, picks, retryCfg,
                   smOp, rrCalls, algorithm, sticky, healthy, conns, currentWeights,
                   sessions, metrics, req, last, streak500, pin>>

RegistryInit ==
    /\ CoreInit
    /\ do = DoIdle
    /\ ctxDone = FALSE
    /\ \E alg \in {"round-robin", "weighted-round-robin"} : LBStart(alg, << >>, FALSE)

RegNextCall ==
    /\ algorithm = "round-robin"
    /\ SelCall(MaxRegPicks)

RegistryNext ==
    \/ \E id \in Backends : AddBackend(id)
    \/ \E id \in Backends : RemoveBackend(id)
    \/ RegNextCall

SpecRegistry == RegistryInit /\ [][RegistryNext]_vars

\* C37: after any sequence of AddBackend and RemoveBackend calls, including
\* adding an id that is already registered, the key list holds exactly the
\* ids of the backends map, each once, and Next() never returns a nil backend
\* with a nil error.
C37_KeysMatchMap ==
    /\ {keys[i] : i \in 1..Len(keys)} = registry
    /\ \A i, j \in 1..Len(keys) : i # j => keys[i] # keys[j]
    /\ \A k \in 1..Len(picks) : picks[k] # NilBackend

(***************************************************************************)
(* roundRobin.Next under concurrent callers. Next holds only the read lock, *)
(* which any number of goroutines hold at once, while it reads and writes   *)
(* rb.current: between a goroutine's read of the cursor and its write any   *)
(* other goroutine's reads and writes can happen.                           *)
(***************************************************************************)
\* the calls of Next that have begun
RRCallsBegun == Len(picks) + Cardinality({w \in Workers : rrCalls[w].pc # "idle"})

\* Next up to `backend := rb.backends[rb.keys[rb.current]]`
RRNextRead(w) ==
    /\ rrCalls[w].pc = "idle"
    /\ RRCallsBegun < MaxRRCalls
    /\ registry # {}
    /\ rrCalls' = [rrCalls EXCEPT ![w] =
            [pc |-> "store", cur |-> rrCurrent, b |-> Lookup(keys[rrCurrent + 1])]]
    /\ UNCHANGED <<cbVars, retryVars, lbVars, connOps, sched, loops, sm, served, picks,
                   retryCfg, smOp, registry>>

\* `rb.current = (rb.current + 1) % len(rb.keys)` and the return: the cursor
\* value incremented is the one read for the lookup or one loaded again now,
\* as the compiler chose
RRNextStore(w) ==
    /\ rrCalls[w].pc = "store"
    /\ \E v \in {rrCalls[w].cur, rrCurrent} : rrCurrent' = (v + 1) % Len(keys)
    /\ picks' = Append(picks, rrCalls[w].b)
    /\ rrCalls' = [rrCalls EXCEPT ![w] = IdleCall]
    /\ UNCHANGED <<cbVars, retryVars, connOps, sched, loops, sm, served, retryCfg, smOp,
                   registry, algorithm, keys, sticky, healthy, conns, currentWeights,
                   sessions, metrics, req, last, streak500, pin>>

RRConcInit ==
    /\ CoreInit
    /\ do = DoIdle
    /\ ctxDone = FALSE
    /\ \E ks \in SelKeyLists : LBStart("round-robin", ks, FALSE)

RRConcNext ==
    \/ \E w \in Workers : RRNextRead(w)
    \/ \E w \in Workers : RRNextStore(w)

SpecRRConc == RRConcInit /\ [][RRConcNext]_vars

\* how often b occurs among s[i..j]
Count(b, s, i, j) == Cardinality({k \in i..j : s[k] = b})

\* C31: for a round-robin selector with N always-selectable backends, M
\* concurrent Next() calls advance the cursor exactly M steps and return each
\* backend floor(M/N) or ceiling(M/N) times: no cursor update is lost.
C31_NextLinearizable ==
    (\A w \in Workers : rrCalls[w].pc = "idle") =>
        LET N == Len(keys)
            M == Len(picks)
        IN /\ rrCurrent = M % N
           /\ \A b \in Registered :
                 Count(b, picks, 1, M) \in {M \div N, (M + N - 1) \div N}

(***************************************************************************)
(* A least-connections selector, as its test drives it: backends are added, *)
(* their connection counters are moved, their health is set, and Next() is  *)
(* called.                                                                  *)
(***************************************************************************)
LeastConnInit ==
    /\ CoreInit
    /\ do = DoIdle
    /\ ctxDone = FALSE
    /\ \E ks \in SelKeyLists : LBStart("least-connections", ks, FALSE)

LCNextCall == SelCall(MaxLCPicks)

LeastConnNext ==
    \/ LCNextCall
    \/ \E b \in Registered : ConnIncrement(1, b)
    \/ \E b \in Registered : ConnDecrementLoad(1, b)
    \/ ConnDecrementAdd(1)
    \/ \E b \in Backends, ok \in BOOLEAN : HealthCheck(b, ok)

SpecLeastConn == LeastConnInit /\ [][LeastConnNext]_vars

\* of the backends in S, the one AddBackend was called for first
FirstAdded(S) ==
    keys[CHOOSE i \in 1..Len(keys) :
            keys[i] \in S /\ \A k \in 1..(i - 1) : keys[k] \notin S]

RECURSIVE WeightSum(_)
WeightSum(i) == IF i > Len(keys) THEN 0 ELSE Weight(keys[i]) + WeightSum(i + 1)

\* C24: a round-robin selector returns its N backends cyclically in insertion
\* order, starting with the first; over M calls each backend is returned
\* floor(M/N) or ceiling(M/N) times.
C24_RoundRobinCycle ==
    algorithm = "round-robin" =>
        LET N == Len(keys)
            M == Len(picks)
        IN /\ \A j \in 1..M : picks[j] = keys[((j - 1) % N) + 1]
           /\ \A b \in Registered :
                 Count(b, picks, 1, M) \in {M \div N, (M + N - 1) \div N}

\* nine calls on three backends went A,B,C three times over
C24_Witness ==
    /\ algorithm = "round-robin"
    /\ keys = <<"A", "B", "C">>
    /\ picks = <<"A", "B", "C", "A", "B", "C", "A", "B", "C">>

\* the sequence s repeated: its element for the j-th call
Cyclic(s, j) == s[((j - 1) % Len(s)) + 1]

\* C25: with weights A=1, B=2, C=3 added in that order, weighted round-robin
\* returns C,B,C,A,B,C and repeats with period 6.
C25_WeightedPattern ==
    (algorithm = "weighted-round-robin" /\ keys = <<"A", "B", "C">>) =>
        \A j \in 1..Len(picks) : picks[j] = Cyclic(<<"C", "B", "C", "A", "B", "C">>, j)

\* C25 as the code has it: the tie of A and C at the third call goes to A, the
\* backend added first, and the sequence is C,B,A,C,B,C with period 6.
C25_WeightedPatternTieFirst ==
    (algorithm = "weighted-round-robin" /\ keys = <<"A", "B", "C">>) =>
        /\ \A j \in 1..Len(picks) : picks[j] = Cyclic(<<"C", "B", "A", "C", "B", "C">>, j)
        /\ Len(picks) % 6 = 0 => currentWeights = [b \in Backends |-> 0]

\* two periods of the pattern have been returned
C25_Witness ==
    /\ algorithm = "weighted-round-robin"
    /\ keys = <<"A", "B", "C">>
    /\ picks = <<"C", "B", "A", "C", "B", "C", "C", "B", "A", "C", "B", "C">>

\* C26: with weights w_i summing to W, over any M successive weighted
\* round-robin calls backend i is returned between floor(M*w_i/W) - 1 and
\* ceiling(M*w_i/W) + 1 times, and exactly w_i times in every W successive
\* calls. Every window ending at the last call is looked at; the windows
\* ending earlier were looked at when they were the last.
C26_WeightedDistribution ==
    algorithm = "weighted-round-robin" =>
        LET W == WeightSum(1)
            L == Len(picks)
        IN \A i \in 1..L : \A b \in Registered :
              LET M == L - i + 1
                  n == Count(b, picks, i, L)
                  w == Weight(b)
              IN /\ n >= ((M * w) \div W) - 1
                 /\ n <= ((M * w + W - 1) \div W) + 1
                 /\ M = W => n = w

\* unequal weights, and more than one full cycle of calls made
C26_Witness ==
    /\ algorithm = "weighted-round-robin"
    /\ keys = <<"C", "A", "B">>
    /\ Len(picks) > WeightSum(1)
    /\ Count("C", picks, 1, Len(picks)) > Count("B", picks, 1, Len(picks))

(***************************************************************************)
(* Properties of the health scheduler, checked under SpecHealth and, for   *)
(* the two that say something happens in the end, under SpecHealthLive.    *)
(***************************************************************************)
\* b's loop starts a probe in this step
ProbeStarts(b) == loops[b].pc = "select" /\ loops'[b].pc = "publish"

\* b's loop puts a result in the results channel in this step
Publishes(b) == loops[b].pc = "publish" /\ loops'[b].pc = "select"

\* C16: while the scheduler is not stopped, a probe of a registered backend
\* that has completed with result v leads to the backend's healthy flag being
\* v, whether or not anything reads the results channel.
C16_ProbeSetsHealth ==
    \A b \in Backends, v \in BOOLEAN :
        (loops[b].pc = "publish" /\ loops[b].ok = v /\ b \in sched.backends)
            ~> (healthy[b] = v \/ b \notin sched.backends \/ Stopped)

\* C17: a second call of Stop raises no panic.
C17_StopIdempotent == sched.stopCalls >= 2 => ~sched.panicked

\* C18: once Stop has returned, no loop starts a probe and no result is put
\* in the results channel.
C18_QuietAfterStop ==
    [][Stopped =>
         /\ \A b \in Backends : ~ProbeStarts(b)
         /\ sched'.results <= sched.results]_vars

\* C19: once Stop has been called, every running probe loop exits in the end.
C19_LoopsExitAfterStop ==
    \A b \in Backends :
        (Stopped /\ loops[b].pc \in {"select", "publish"}) ~> (loops[b].pc = "exited")

\* C20: once a backend has been removed from a started scheduler, no probe of
\* it starts and no result for it is published.
C20_QuietAfterRemove ==
    [][\A b \in Backends :
         (sched.started /\ b \notin sched.backends) =>
            (~ProbeStarts(b) /\ ~Publishes(b))]_vars

(***************************************************************************)
(* Properties of session affinity, checked under SpecSticky.               *)
(***************************************************************************)
\* slot r takes, in this step, a request of client c
Takes(r, c) == req[r].pc = "idle" /\ req'[r].pc = "forwarding" /\ req'[r].client = c

\* client c has completed a request on a backend that is still registered and
\* selectable, less than the TTL ago
PinnedInTTL(c) ==
    /\ sticky
    /\ pin[c].b \in Registered
    /\ now <= pin[c].at + SessionTTL
    /\ Selectable(pin[c].b)

\* the entry written when c's last successful request completed is in the store
EntryKept(c) ==
    sessions[c] = [backendID |-> pin[c].b, expiresAt |-> pin[c].at + SessionTTL]

\* the store holds an unexpired entry of c for a registered backend
HasSession(c) ==
    /\ sticky
    /\ sessions[c].backendID \in Registered
    /\ now <= sessions[c].expiresAt

C13_SessionFailover ==
    [][\A r \in Reqs, c \in Clients :
         (Takes(r, c) /\ HasSession(c) /\ ~Selectable(sessions[c].backendID)) =>
            (req'[r].via = "next" /\ req'[r].b # sessions[c].backendID)]_vars

(***************************************************************************)
(* Properties of the session manager's modes, checked under SpecSession.   *)
(***************************************************************************)
\* C22: with sticky sessions disabled (enabled=false) a lookup always returns
\* empty, remembering leaves the session store and the response unchanged,
\* and no sweeper task runs.
C22_DisabledManager ==
    ~sticky =>
        /\ \A c \in Clients \cup {""} : GetBackendID(c) = ""
        /\ Live(sessions) = {}
        /\ served.setCookie = ""
        /\ ~sm.sweeper

\* C23: in cookie mode, when a request without a session cookie is forwarded
\* successfully, the response the client receives carries the generated
\* session cookie and the store maps that cookie value to the chosen backend.
C23_CookieDelivered ==
    [][\A r \in Reqs :
          (/\ sticky
           /\ sm.type = "cookie"
           /\ req[r].client = ""
           /\ Forward(r, 200, TRUE)) =>
             /\ served'.setCookie # ""
             /\ served'.delivered = served'.setCookie
             /\ sessions'[served'.setCookie].backendID = req[r].b]_vars

(***************************************************************************)
(* Properties of the proxy as the tests build it, checked under SpecBare.   *)
(***************************************************************************)
\* C29: a backend made by backend.New on which SetRetryConfig was never called
\* serves proxied requests: the request is forwarded to it and the upstream's
\* 200 reaches the client.
C29_ServesWithoutRetryConfig ==
    [][\A r \in Reqs :
          (Arrive(r, "c1") /\ ~retryCfg /\ keys # << >>) =>
             /\ req'[r].pc = "forwarding"
             /\ last' # Panicked]_vars

\* C28: with no backend registered, Next of every policy returns
\* ErrNoBackends and leaves the selector state unchanged; the proxy answers
\* 503, adds exactly one to failed_requests and contacts no upstream.
C28_NoBackends ==
    [][\A r \in Reqs :
          (Arrive(r, "c1") /\ keys = << >>) =>
             /\ \A n \in Next : n.err = "ErrNoBackends"
             /\ last' = Answered("ErrNoBackends", 503, << >>)
             /\ rrCurrent' = rrCurrent
             /\ currentWeights' = currentWeights
             /\ breaker' = breaker
             /\ metrics'.failedRequests = metrics.failedRequests + 1
             /\ metrics'.backendRequests = metrics.backendRequests
             /\ req' = req]_vars

\* a weighted-round-robin balancer without backends has refused two requests
C28_Witness ==
    /\ keys = << >>
    /\ algorithm = "weighted-round-robin"
    /\ last = Answered("ErrNoBackends", 503, << >>)
    /\ metrics.totalRequests = 2
    /\ metrics.failedRequests = 2

(***************************************************************************)
(* The size of the session store, checked under SpecSticky.                *)
(***************************************************************************)
\* C21: after any sequence of SetBackendID calls and sweeps the session store
\* holds at most maxSessions entries.
C21_StoreBounded == Cardinality(Live(sessions)) <= MaxSessions

\* the store is full and a client whose session had not expired has lost its
\* entry: SetBackendID evicted it to make room
C21_Witness ==
    /\ Cardinality(Live(sessions)) = MaxSessions
    /\ \E c \in Clients :
            /\ pin[c].b # ""
            /\ sessions[c] = NoSession
            /\ now <= pin[c].at + SessionTTL

(***************************************************************************)
(* Properties of the circuit breaker, checked under SpecCB.                *)
(***************************************************************************)
\* the callers admitted as half-open probes of b whose outcome is not yet recorded
PendingProbes(b) ==
    {c \in Callers : callers[c].pc = "admitted" /\ callers[c].b = b /\ callers[c].probe}

\* C3: in HALF_OPEN the number of requests admitted by AllowRequest whose
\* outcome has not yet been recorded never exceeds halfOpenLimit.
C3_HalfOpenProbesBounded ==
    \A b \in Backends :
        breaker[b].state = "HalfOpen" => Cardinality(PendingProbes(b)) <= HalfOpenLimit

\* C4: while OPEN, AllowRequest returns false for every call made while
\* now - lastFailureAt <= resetTimeout; the first call made after resetTimeout
\* has elapsed moves the breaker to HALF_OPEN with successCount = 0 and
\* returns true.
C4_OpenRejectsThenProbes ==
    [][\A c \in Callers :
          /\ \A b \in CBSubjects :
                (/\ CBAllowRequest(c, b)
                 /\ breaker[b].state = "Open"
                 /\ now - breaker[b].lastFailureTime <= ResetTimeout)
                => (callers'[c].pc = "idle" /\ breaker'[b] = breaker[b])
          /\ (CBAllowFlip(c) /\ callers[c].first)
                => (/\ callers'[c].pc = "admitted"
                    /\ breaker'[callers[c].b].state = "HalfOpen"
                    /\ breaker'[callers[c].b].successCount = 0)]_vars

\* C36: under any interleaving of AllowRequest, RecordSuccess and
\* RecordFailure, successCount is 0 whenever the breaker is CLOSED or OPEN and
\* lies in 0 .. halfOpenLimit - 1 whenever it is HALF_OPEN.
C36_SuccessCountRange ==
    \A b \in Backends :
        /\ breaker[b].state \in {"Closed", "Open"} => breaker[b].successCount = 0
        /\ breaker[b].state = "HalfOpen" =>
              (breaker[b].successCount >= 0 /\ breaker[b].successCount < HalfOpenLimit)

\* a half-open breaker has counted a success while a goroutine that saw it
\* OPEN is still about to write HalfOpen
C36_Witness ==
    \E b \in Backends, c \in Callers :
        /\ breaker[b].state = "HalfOpen"
        /\ breaker[b].successCount = HalfOpenLimit - 1
        /\ breaker[b].successCount > 0
        /\ callers[c].pc = "flip"
        /\ callers[c].b = b

\* C30: the OPEN to HALF_OPEN flip of AllowRequest is done by a single
\* observer: the write of HalfOpen happens only if, at the moment of the write,
\* the breaker is still OPEN with now - lastFailureAt > resetTimeout.
C30_FlipRechecked ==
    [][\A c \in Callers :
          CBAllowFlip(c) =>
             /\ breaker[callers[c].b].state = "Open"
             /\ now - breaker[callers[c].b].lastFailureTime > ResetTimeout]_vars

C6_HalfOpenBreaker ==
    [][\A c \in Callers :
          LET b == callers[c].b
              cb == breaker[b]
              nb == breaker'[b]
          IN /\ (CBRecordSuccess(c) /\ cb.state = "HalfOpen")
                  => IF cb.successCount + 1 >= HalfOpenLimit
                     THEN nb.state = "Closed" /\ nb.failureCount = 0 /\ nb.successCount = 0
                     ELSE /\ nb.state = "HalfOpen"
                          /\ nb.successCount = cb.successCount + 1
                          /\ nb.failureCount = cb.failureCount
             /\ (CBRecordFailure(c) /\ cb.state = "HalfOpen")
                  => (nb.state = "Open" /\ nb.successCount = 0)]_vars

\* a half-open breaker that was re-opened by a failed probe, probed again and
\* has counted a successful probe
C6_Witness ==
    /\ breaker["A"].state = "HalfOpen"
    /\ breaker["A"].successCount >= 1
    /\ breaker["A"].failureCount > FailureThreshold

(***************************************************************************)
(* Properties of retry.Do, checked under SpecRetry.                        *)
(***************************************************************************)
\* C11: once ctx is cancelled while Do is between two attempts (about to look
\* at ctx.Done(), or in the backoff wait), the next thing Do does is return
\* ctx.Err() without another call of fn; and a returned Do calls nothing.
C11_CancelStopsDo ==
    [][/\ (ctxDone /\ do.pc \in {"check", "wait"}) =>
            \/ do' = do
            \/ /\ do'.pc = "returned"
               /\ do'.result = CtxErr
               /\ do'.outcomes = do.outcomes
       /\ do.pc = "returned" => do' = do]_vars

\* Do returned ctx.Err() after a second attempt, with attempts left
C11_Witness ==
    /\ do.pc = "returned"
    /\ do.result = CtxErr
    /\ Len(do.outcomes) = 2
    /\ do.i < do.maxRetries

\* C39: retry.Do waits only between attempts: a call that has returned after
\* n attempts performed at most n - 1 backoff waits.
C39_NoWaitAfterLastAttempt ==
    (do.pc = "returned" /\ Len(do.outcomes) > 0) =>
        Len(do.waits) <= Len(do.outcomes) - 1

\* b_k = min(MaxInterval, InitialInterval * Multiplier^(k-1))
RECURSIVE BaseInterval(_)
BaseInterval(k) ==
    IF k = 1 THEN (IF InitialInterval > MaxInterval THEN MaxInterval ELSE InitialInterval)
    ELSE LET n == BaseInterval(k - 1) * Multiplier
         IN IF n > MaxInterval THEN MaxInterval ELSE n

\* C32: the k-th backoff wait of retry.Do lies in [b_k, b_k * (1 + randomization)]
\* with b_k = min(MaxInterval, InitialInterval * Multiplier^(k-1)).
C32_BackoffBounds ==
    \A k \in 1..Len(do.waits) :
        /\ do.waits[k] >= BaseInterval(k)
        /\ do.waits[k] * 100 <= BaseInterval(k) * (100 + RandomizationPct)

\* C10: retry.Do calls the attempt function at most MaxRetries+1 times; it
\* returns nil at the first attempt that succeeds, returns a terminal error
\* immediately without waiting or calling the function again, and when all
\* MaxRetries+1 attempts fail retryably it returns the error of the last
\* attempt.
C10_DoContract ==
    LET n == Len(do.outcomes) IN
    /\ n <= do.maxRetries + 1
    /\ \A k \in 1..(n - 1) : do.outcomes[k] = "RetryableError"
    /\ (do.pc = "returned" /\ n > 0) =>
          /\ do.outcomes[n] = "nil" => do.result = Nil
          /\ do.outcomes[n] = "error" =>
                (do.result = Err("error", n) /\ Len(do.waits) = n - 1)
          /\ (do.outcomes[n] = "RetryableError" /\ n = do.maxRetries + 1) =>
                do.result = Err("RetryableError", n)

====
